---- MODULE Spec2Model ----
(***************************************************************************)
(* A model of srcpkg.py, a source-based package manager: the package       *)
(* database, the dependency resolver, the build-and-install pipeline with  *)
(* its checksum gate, removal, orphans, upgrade and the version ordering.  *)
(*                                                                         *)
(* The program is sequential: one command runs at a time.  A command is    *)
(* modelled as a sequence of steps (pc, stack, bld), one step per call the *)
(* handler makes, so that the order of effects inside one command can be   *)
(* observed.  Strings of the version ordering are sequences of one         *)
(* character strings.                                                      *)
(***************************************************************************)
EXTENDS Integers, Sequences, FiniteSets, TLC

VARIABLES
    repo,      \* name -> recipe, for the names scan_repo_recipes / <name>.json resolve
    upstream,  \* archive name -> hash of the bytes the download server serves
    db,        \* SRCPKG_DB: name -> InstalledPkg record; the domain is the installed set
    root,      \* the live root "/": the set of regular files on it
    cache,     \* SRCPKG_SRC: archive name -> hash of the cached file, for the files in it
    pc,        \* "idle", "resolve" (in the resolver), "install" (in install_from_meta), "done"
    cmd,       \* the command being run, with its arguments
    stack,     \* activations of _resolve_deps_install_first: [meta, i]
    visited,   \* the visited set shared by those activations
    bld,       \* the running install_from_meta: <<[meta, stage]>>, or NoBuild
    writes,    \* history: names whose record InstalledPkg.save wrote, in order
    fetched,   \* history: archive names the downloader was run for, in order
    out,       \* the command's result: "", "ok" or an error kind
    listed,    \* what the command printed: the names cmd_orphans lists
    vu, vv, vw,\* three version strings, inputs of the version ordering
    work,      \* SRCPKG_BUILD/<name>-<version>/destdir of the running build: the files under it
    report,    \* what revdep printed: package, missing library, possible providers
    env        \* the environments of _expand_env: of the process, of the recipe, the result

vars == <<repo, upstream, db, root, cache, pc, cmd, stack, visited, bld,
          writes, fetched, out, listed, vu, vv, vw, work, report, env>>

pmvars == <<repo, upstream, db, root, cache, pc, cmd, stack, visited, bld,
            writes, fetched, out, listed, work, report>>

(***************************************************************************)
(* Bounds of the model.                                                    *)
(***************************************************************************)
MaxEdges == 2      \* most entries in the dependencies lists of a repository, together
MaxVerLen == 2     \* longest version string drawn for the version ordering

Names == {"a", "b", "c"}

Range(s) == {s[i] : i \in DOMAIN s}

RECURSIVE SeqsUpTo(_, _)
SeqsUpTo(S, n) ==
    IF n = 0 THEN {<<>>}
    ELSE LET shorter == SeqsUpTo(S, n - 1)
         IN  shorter \cup {Append(s, x) : s \in shorter, x \in S}

(***************************************************************************)
(* Version ordering: SrcPkg._verkey and Python's tuple comparison.         *)
(***************************************************************************)
Digits == {"0", "1", "2"}
Letters == {"a"}
Separators == {"."}
VerChars == Digits \cup Letters \cup Separators

\* [0-9A-Za-z]: the characters re.split does not split on
IsAlnum(ch) == ch \in Digits \cup Letters

\* code point order of the characters, as Python compares str
Ord(ch) ==
    CASE ch = "." -> 46
      [] ch = "0" -> 48
      [] ch = "1" -> 49
      [] ch = "2" -> 50
      [] ch = "a" -> 97

DigitVal(ch) == Ord(ch) - 48

\* first index >= i of v holding an alphanumeric character, Len(v)+1 if none
RECURSIVE SkipRun(_, _)
SkipRun(v, i) ==
    IF i > Len(v) \/ IsAlnum(v[i]) THEN i ELSE SkipRun(v, i + 1)

\* re.split(r"[^0-9A-Za-z]+", v): acc are the parts closed so far, cur the
\* part being read; a run of separators closes the part, also an empty one
RECURSIVE SplitFrom(_, _, _, _)
SplitFrom(v, i, cur, acc) ==
    IF i > Len(v) THEN Append(acc, cur)
    ELSE IF IsAlnum(v[i]) THEN SplitFrom(v, i + 1, Append(cur, v[i]), acc)
    ELSE SplitFrom(v, SkipRun(v, i), <<>>, Append(acc, cur))

re_split(v) == SplitFrom(v, 1, <<>>, <<>>)

\* str.isdigit(): non-empty and every character a digit
isdigit(p) == Len(p) > 0 /\ \A i \in DOMAIN p : p[i] \in Digits

\* int(p) of a string of digits
RECURSIVE int(_)
int(p) ==
    IF Len(p) = 0 THEN 0
    ELSE 10 * int(SubSeq(p, 1, Len(p) - 1)) + DigitVal(p[Len(p)])

\* (mutant) every token is taken as an alphabetic one
KeyPartWrong(p) == [tag |-> 1, num |-> 0, str |-> p]

\* one element of the key: (0, int(p)) or (1, p)

KeyPart(p) ==
    IF isdigit(p) THEN [tag |-> 0, num |-> int(p), str |-> <<>>]
    ELSE [tag |-> 1, num |-> 0, str |-> p]

_verkey(v) == LET parts == re_split(v) IN [i \in DOMAIN parts |-> KeyPart(parts[i])]

\* Python's < on str
RECURSIVE StrLess(_, _)
StrLess(s, t) ==
    IF Len(t) = 0 THEN FALSE
    ELSE IF Len(s) = 0 THEN TRUE
    ELSE IF s[1] # t[1] THEN Ord(s[1]) < Ord(t[1])
    ELSE StrLess(Tail(s), Tail(t))

\* Python's < on the pairs (tag, value)
PartLess(x, y) ==
    \/ x.tag < y.tag
    \/ x.tag = y.tag /\ x.tag = 0 /\ x.num < y.num
    \/ x.tag = y.tag /\ x.tag = 1 /\ StrLess(x.str, y.str)

\* Python's < on tuples: the first differing position decides, a proper
\* prefix is smaller
RECURSIVE TupleLess(_, _)
TupleLess(k, l) ==
    IF Len(l) = 0 THEN FALSE
    ELSE IF Len(k) = 0 THEN TRUE
    ELSE IF k[1] # l[1] THEN PartLess(k[1], l[1])
    ELSE TupleLess(Tail(k), Tail(l))

VerLess(u, v) == TupleLess(_verkey(u), _verkey(v))
VerLe(u, v) == VerLess(u, v) \/ _verkey(u) = _verkey(v)

\* the versions recipes and records carry: "1.2" and "1.10"
V12 == <<"1", ".", "2">>
V110 == <<"1", ".", "1", "0">>
PkgVersions == {V12, V110}

\* the version strings the ordering is checked on
VerStrings == SeqsUpTo(VerChars, MaxVerLen) \cup PkgVersions

Dot1 == <<".", "1">>

(***************************************************************************)
(* Data model: PackageMeta, InstalledPkg.                                  *)
(***************************************************************************)
Hashes == {"h1", "h2"}
NoSha == "none"            \* SourceSpec.sha256 is None
Partial == "h0"            \* the hash of a file a failed download left behind

\* the file a recipe's install script stages under DESTDIR, as the path it
\* has on the live root
StagedPath == [n \in Names |-> <<"usr", "bin", n>>]

\* the paths of a shared library and of a binary linked against it
LibFoo == <<"usr", "lib", "libfoo.so.1">>
UserBin == <<"usr", "bin", "user">>

\* os.path.basename
basename(f) == f[Len(f)]

\* name.startswith("lib"), ".so" in name, for the basenames of the model
startswith_lib(b) == b \in {"libfoo.so.1"}
contains_so(b) == b \in {"libfoo.so.1"}

\* mode & stat.S_IXUSR: the binaries are installed executable
Executable(f) == f[2] = "bin"

\* the sonames ldd lists for a file: what it was linked against
Needed(f) == IF f = UserBin THEN {"libfoo.so.1"} ELSE {}

\* the lines of ldd that say "not found": no file of that name on the root
ldd_not_found(f, r) == {l \in Needed(f) : ~\E g \in r : basename(g) = l}

Min(x, y) == IF x < y THEN x ELSE y

\* dependencies lists: names in any order, none twice
DepLists ==
    {d \in SeqsUpTo(Names, Min(MaxEdges, Cardinality(Names))) : Cardinality(Range(d)) = Len(d)}

PackageMeta(n, v, deps, sha) ==
    [name |-> n, version |-> v, dependencies |-> deps, sha256 |-> sha,
     files |-> {StagedPath[n]}]

\* InstalledPkg(name, version, files, depends, recipe)
InstalledPkg(meta, files) ==
    [name |-> meta.name, version |-> meta.version, files |-> files,
     depends |-> meta.dependencies]

\* the destdir of a work tree that does not exist, or holds nothing
NoTree == {}

\* what a build may find under the destdir of its work tree
\* SRCPKG_BUILD/<name>-<version>: nothing, or a file an earlier run of that
\* name and version staged there
StaleFile == <<"usr", "share", "old">>
StaleTrees == {NoTree, {StaleFile}}

Installed == DOMAIN db

\* InstalledPkg.load(name) is not None
IsInstalled(n) == n \in DOMAIN db

\* InstalledPkg.save: the record replaces the one of the same name
Save(d, rec) == [n \in DOMAIN d \cup {rec.name} |-> IF n = rec.name THEN rec ELSE d[n]]

\* unlink of SRCPKG_DB/<name>.json
Unlink(d, name) == [n \in DOMAIN d \ {name} |-> d[n]]

\* the file out = SRCPKG_SRC/<last component of the url>: one per recipe name
Put(c, name, h) == [n \in DOMAIN c \cup {name} |-> IF n = name THEN h ELSE c[n]]

\* what the model knows of the euid of a process that has not called
\* os.geteuid() yet: nothing; once read, it is the set of that one value
Unread == {}

NoCmd == [op |-> "none", name |-> "", version |-> <<>>, flag |-> FALSE, euid |-> Unread, had |-> {},
          db0 |-> <<>>, root0 |-> {}]
NoBuild == <<>>
NoEnv == <<>>

\* sorted(...) of a set of names: Python's str order on the names
NameRank == [n \in Names |-> CASE n = "a" -> 1 [] n = "b" -> 2 [] n = "c" -> 3]

IsSorted(s) == \A i, j \in DOMAIN s : i < j => NameRank[s[i]] < NameRank[s[j]]

sorted(S) ==
    CHOOSE s \in SeqsUpTo(S, Cardinality(S)) : Range(s) = S /\ Len(s) = Cardinality(S) /\ IsSorted(s)

(***************************************************************************)
(* Orphans: SrcPkg.orphans.                                                *)
(***************************************************************************)
\* required: every name listed in the depends of an installed record
Required(d) == UNION {Range(d[p].depends) : p \in DOMAIN d}

\* (mutant) every installed name is listed, required or not
orphansAll(d) == sorted(DOMAIN d)

orphans(d) == sorted(DOMAIN d \ Required(d))

(***************************************************************************)
(* Commands.  A command starts from "idle" and ends in "done"; Exit is the *)
(* end of the process.                                                     *)
(***************************************************************************)
\* the effective uid of the process: root, or a user.  It is fixed for the
\* process; the model draws it where the process first reads it.
Euids == {0, 1000}

geteuid == IF cmd.euid = Unread THEN Euids ELSE cmd.euid

\* a command starts: its arguments (the name, the version of the recipe the
\* argument names, the flag), and had, the names installed as it starts, db0
\* and root0, the database and the live root as it starts
NewCmd(op, n, v, flag) ==
    [op |-> op, name |-> n, version |-> v, flag |-> flag, euid |-> Unread, had |-> DOMAIN db,
     db0 |-> db, root0 |-> root]

StartCmd(op, n, v, flag) ==
    /\ cmd' = NewCmd(op, n, v, flag)
    /\ writes' = <<>>
    /\ fetched' = <<>>

\* the command ends: normally, by an exception that main() reports, or by
\* sys.exit.  bld keeps the build that was running, for the record.
End(kind) ==
    /\ pc' = "done"
    /\ out' = kind
    /\ stack' = <<>>
    /\ visited' = {}
    /\ UNCHANGED bld

\* install_from_meta(meta) is entered
Enter(meta) == <<[meta |-> meta, stage |-> "fresh"]>>

\* load_meta_from_arg: no recipe of that name, SystemExit
RecipeNotFound(n) ==
    /\ pc = "idle"
    /\ n \notin DOMAIN repo
    /\ StartCmd("install", n, <<>>, FALSE)
    /\ End("RecipeNotFound")
    /\ UNCHANGED <<repo, upstream, db, root, cache, listed, vu, vv, vw, work, report, env>>

\* cmd_install up to the first call of _resolve_deps_install_first: visited is
\* a new set, the target's name is added to it
cmd_install(n) ==
    /\ pc = "idle"
    /\ n \in DOMAIN repo
    /\ StartCmd("install", n, repo[n].version, FALSE)
    /\ pc' = "resolve"
    /\ visited' = {repo[n].name}
    /\ stack' = <<[meta |-> repo[n], i |-> 1]>>
    /\ UNCHANGED <<repo, upstream, db, root, cache, bld, out, listed, vu, vv, vw, work, report, env>>

(***************************************************************************)
(* SrcPkg._resolve_deps_install_first: one step per iteration of the loop  *)
(* over meta.dependencies.                                                 *)
(***************************************************************************)
Top == stack[Len(stack)]
TopDep == Top.meta.dependencies[Top.i]
InLoop == pc = "resolve" /\ Top.i <= Len(Top.meta.dependencies)
Advance(st) == [st EXCEPT ![Len(st)].i = @ + 1]

\* (mutant) a dependency that has a record is resolved like any other
DepInstalledDescends ==
    /\ InLoop
    /\ IsInstalled(TopDep)
    /\ IF TopDep \in DOMAIN repo /\ repo[TopDep].name \notin visited
       THEN /\ visited' = visited \cup {repo[TopDep].name}
            /\ stack' = Append(stack, [meta |-> repo[TopDep], i |-> 1])
       ELSE /\ stack' = Advance(stack)
            /\ UNCHANGED visited
    /\ UNCHANGED <<repo, upstream, db, root, cache, pc, cmd, bld, writes, fetched, out, listed, vu, vv, vw, work, report, env>>

\* if InstalledPkg.load(dep): continue
DepInstalled ==
    /\ InLoop
    /\ IsInstalled(TopDep)
    /\ stack' = Advance(stack)
    /\ UNCHANGED <<repo, upstream, db, root, cache, pc, cmd, visited, bld, writes, fetched, out, listed, vu, vv, vw, work, report, env>>

\* if not rpath.exists(): raise RuntimeError
DepUnresolved ==
    /\ InLoop
    /\ ~IsInstalled(TopDep)
    /\ TopDep \notin DOMAIN repo
    /\ End("UnresolvedDependency")
    /\ UNCHANGED <<repo, upstream, db, root, cache, cmd, writes, fetched, listed, vu, vv, vw, work, report, env>>

\* (mutant) the dependency is installed without resolving its own
\* dependencies first
DepDescendFlat ==
    /\ InLoop
    /\ ~IsInstalled(TopDep)
    /\ TopDep \in DOMAIN repo
    /\ repo[TopDep].name \notin visited
    /\ visited' = visited \cup {repo[TopDep].name}
    /\ pc' = "install"
    /\ bld' = Enter(repo[TopDep])
    /\ work' \in StaleTrees
    /\ UNCHANGED <<repo, upstream, db, root, cache, cmd, stack, writes, fetched, out, listed, vu, vv, vw, report, env>>

\* the recursive call on a recipe not visited yet: its name is added to
\* visited and its own loop starts
DepDescend ==
    /\ InLoop
    /\ ~IsInstalled(TopDep)
    /\ TopDep \in DOMAIN repo
    /\ repo[TopDep].name \notin visited
    /\ visited' = visited \cup {repo[TopDep].name}
    /\ stack' = Append(stack, [meta |-> repo[TopDep], i |-> 1])
    /\ UNCHANGED <<repo, upstream, db, root, cache, pc, cmd, bld, writes, fetched, out, listed, vu, vv, vw, work, report, env>>

\* (mutant) the recursive call on a visited recipe runs its loop again
DepVisitedDescends ==
    /\ InLoop
    /\ ~IsInstalled(TopDep)
    /\ TopDep \in DOMAIN repo
    /\ repo[TopDep].name \in visited
    /\ stack' = Append(stack, [meta |-> repo[TopDep], i |-> 1])
    /\ UNCHANGED <<repo, upstream, db, root, cache, pc, cmd, visited, bld, writes, fetched, out, listed, vu, vv, vw, work, report, env>>

\* the recursive call on a visited recipe returns at once, and the caller goes
\* on to install_from_meta(dmeta)
DepVisited ==
    /\ InLoop
    /\ ~IsInstalled(TopDep)
    /\ TopDep \in DOMAIN repo
    /\ repo[TopDep].name \in visited
    /\ pc' = "install"
    /\ bld' = Enter(repo[TopDep])
    /\ work' \in StaleTrees
    /\ UNCHANGED <<repo, upstream, db, root, cache, cmd, stack, visited, writes, fetched, out, listed, vu, vv, vw, report, env>>

\* the loop is over and the call returns: its caller (the loop of the
\* activation below, or cmd_install) goes on to install_from_meta of that recipe
Return ==
    /\ pc = "resolve"
    /\ Top.i > Len(Top.meta.dependencies)
    /\ stack' = SubSeq(stack, 1, Len(stack) - 1)
    /\ pc' = "install"
    /\ bld' = Enter(Top.meta)
    /\ work' \in StaleTrees
    /\ UNCHANGED <<repo, upstream, db, root, cache, cmd, visited, writes, fetched, out, listed, vu, vv, vw, report, env>>

(***************************************************************************)
(* SrcPkg.install_from_meta: build (download, extract, apply_patches, the  *)
(* three script phases), package, install_package_dir.  bld[1].stage is    *)
(* the call that comes next.                                               *)
(***************************************************************************)
Building == pc = "install" /\ bld # NoBuild
Meta == bld[1].meta
At(stage) == Building /\ bld[1].stage = stage
Goto(stage) == bld' = <<[meta |-> Meta, stage |-> stage]>>

\* (mutant) no hash is ever found to differ
MismatchNever(meta, got) == FALSE

\* the files under the destdir of the running build
Destdir == work

\* install_from_meta: a work tree of that name left by an earlier run is
\* removed, and the tree is made anew
fresh_work ==
    /\ At("fresh")
    /\ work' = NoTree
    /\ Goto("download")
    /\ UNCHANGED <<repo, upstream, db, root, cache, pc, cmd, stack, visited, writes, fetched, out, listed, vu, vv, vw, report, env>>

\* compute_sha256(out) != src.sha256, for a declared src.sha256
Mismatch(meta, got) == meta.sha256 # NoSha /\ got # meta.sha256

\* (mutant) a file whose hash differs is deleted from the cache
downloadUnlinks ==
    /\ At("download")
    /\ LET f == Meta.name
           miss == f \notin DOMAIN cache
           cache1 == IF miss THEN Put(cache, f, upstream[f]) ELSE cache
       IN  /\ fetched' = IF miss THEN Append(fetched, f) ELSE fetched
           /\ IF Mismatch(Meta, cache1[f])
              THEN cache' = Unlink(cache1, f) /\ End("ChecksumMismatch")
              ELSE cache' = cache1 /\ Goto("extract") /\ UNCHANGED <<pc, out, stack, visited>>
    /\ UNCHANGED <<repo, upstream, db, root, cmd, writes, listed, vu, vv, vw, work, report, env>>

\* SrcPkg.download of an archive source.  The downloader runs only when the
\* cache holds no file of that name, and leaves the bytes the server serves;
\* then the file in the cache is hashed and compared with the declared sha256.
download ==
    /\ At("download")
    /\ LET f == Meta.name
           miss == f \notin DOMAIN cache
           cache1 == IF miss THEN Put(cache, f, upstream[f]) ELSE cache
       IN  /\ cache' = cache1
           /\ fetched' = IF miss THEN Append(fetched, f) ELSE fetched
           /\ IF Mismatch(Meta, cache1[f])
              THEN End("ChecksumMismatch")
              ELSE Goto("extract") /\ UNCHANGED <<pc, out, stack, visited>>
    /\ UNCHANGED <<repo, upstream, db, root, cmd, writes, listed, vu, vv, vw, work, report, env>>

\* the downloader (wget, curl) exits non-zero, or there is none: nothing is
\* left in the cache, or the file the downloader had opened for writing
download_fails ==
    /\ At("download")
    /\ Meta.name \notin DOMAIN cache
    /\ fetched' = Append(fetched, Meta.name)
    /\ \E left \in BOOLEAN : cache' = IF left THEN Put(cache, Meta.name, Partial) ELSE cache
    /\ End("DownloadFailed")
    /\ UNCHANGED <<repo, upstream, db, root, cmd, writes, listed, vu, vv, vw, work, report, env>>

\* the calls of build and package after download, in the order of the code
ToolStages == <<"extract", "patches", "prepare", "compile", "install", "package">>

StageIndex(stage) == CHOOSE i \in DOMAIN ToolStages : ToolStages[i] = stage

\* (mutant) packaging follows the compile phase, the install script is not run
NextStageNoInstall(stage) ==
    IF stage = "compile" THEN "package"
    ELSE IF StageIndex(stage) < Len(ToolStages) THEN ToolStages[StageIndex(stage) + 1] ELSE "copy"

NextStage(stage) ==
    IF StageIndex(stage) < Len(ToolStages) THEN ToolStages[StageIndex(stage) + 1] ELSE "copy"

ErrorOf(stage) ==
    CASE stage = "extract" -> "UnsupportedArchive"
      [] stage = "patches" -> "PatchFailed"
      [] stage \in {"prepare", "compile", "install"} -> "BuildScriptFailed"

\* (mutant) the install script writes onto the live root as well
stage_okOnRoot ==
    /\ Building
    /\ bld[1].stage \in Range(ToolStages)
    /\ Goto(NextStage(bld[1].stage))
    /\ work' = IF bld[1].stage = "install" THEN work \cup Meta.files ELSE work
    /\ root' = IF bld[1].stage = "install" THEN root \cup Meta.files ELSE root
    /\ UNCHANGED <<repo, upstream, db, cache, pc, cmd, stack, visited, writes, fetched, out, listed, vu, vv, vw, report, env>>

\* extract, apply_patches, run_script (prepare, compile, install), package:
\* the call returns and the next one follows
\* the install script stages the recipe's files under destdir
stage_ok ==
    /\ Building
    /\ bld[1].stage \in Range(ToolStages)
    /\ work' = IF bld[1].stage = "install" THEN work \cup Meta.files ELSE work
    /\ Goto(NextStage(bld[1].stage))
    /\ UNCHANGED <<repo, upstream, db, root, cache, pc, cmd, stack, visited, writes, fetched, out, listed, vu, vv, vw, report, env>>

\* the call raises: an unsupported archive, a failed patch, a script phase
\* that exits non-zero
stage_fails ==
    /\ Building
    /\ bld[1].stage \in Range(ToolStages) \ {"package"}
    /\ End(ErrorOf(bld[1].stage))
    /\ UNCHANGED <<repo, upstream, db, root, cache, cmd, writes, fetched, listed, vu, vv, vw, work, report, env>>

\* (mutant) the staging tree is copied before the uid is looked at
not_rootAfterCopy ==
    /\ At("copy")
    /\ \E e \in geteuid : e # 0 /\ cmd' = [cmd EXCEPT !.euid = {e}]
    /\ root' = root \cup Destdir
    /\ End("NotPrivileged")
    /\ UNCHANGED <<repo, upstream, db, cache, writes, fetched, listed, vu, vv, vw, work, report, env>>

\* install_package_dir: os.geteuid() != 0, sys.exit(1)
not_root ==
    /\ At("copy")
    /\ \E e \in geteuid : e # 0 /\ cmd' = [cmd EXCEPT !.euid = {e}]
    /\ End("NotPrivileged")
    /\ UNCHANGED <<repo, upstream, db, root, cache, writes, fetched, listed, vu, vv, vw, work, report, env>>

\* (mutant) the manifest is returned and nothing is copied
_copy_treeDry ==
    /\ At("copy")
    /\ 0 \in geteuid
    /\ cmd' = [cmd EXCEPT !.euid = {0}]
    /\ Goto("save")
    /\ UNCHANGED <<repo, upstream, db, root, cache, pc, stack, visited, writes, fetched, out, listed, vu, vv, vw, work, report, env>>

\* install_package_dir: _copy_tree(destdir, "/") copies every file under
\* destdir
_copy_tree ==
    /\ At("copy")
    /\ 0 \in geteuid
    /\ cmd' = [cmd EXCEPT !.euid = {0}]
    /\ root' = root \cup Destdir
    /\ Goto("save")
    /\ UNCHANGED <<repo, upstream, db, cache, pc, stack, visited, writes, fetched, out, listed, vu, vv, vw, work, report, env>>

\* (mutant) the hooks follow the copy, no record being written
saveSkipped ==
    /\ At("save")
    /\ Goto("hooks")
    /\ UNCHANGED <<repo, upstream, db, root, cache, pc, cmd, stack, visited, writes, fetched, out, listed, vu, vv, vw, work, report, env>>

\* install_package_dir: pkg.save() with the manifest _copy_tree returned
save ==
    /\ At("save")
    /\ db' = Save(db, InstalledPkg(Meta, Destdir))
    /\ writes' = Append(writes, Meta.name)
    /\ Goto("hooks")
    /\ UNCHANGED <<repo, upstream, root, cache, pc, cmd, stack, visited, fetched, out, listed, vu, vv, vw, work, report, env>>

\* install_package_dir: the post_install hooks of the recipe
_run_hooks ==
    /\ At("hooks")
    /\ Goto("ghooks")
    /\ UNCHANGED <<repo, upstream, db, root, cache, pc, cmd, stack, visited, writes, fetched, out, listed, vu, vv, vw, work, report, env>>

\* install_package_dir: the post-install.d hooks; install_from_meta returns,
\* to the loop of the resolver (which takes its next dependency) or to the
\* command, which ends
_run_global_hooks ==
    /\ At("ghooks")
    /\ bld' = NoBuild
    /\ IF stack = <<>>
       THEN pc' = "done" /\ out' = "ok" /\ UNCHANGED stack
       ELSE pc' = "resolve" /\ stack' = Advance(stack) /\ UNCHANGED out
    /\ UNCHANGED <<repo, upstream, db, root, cache, cmd, visited, writes, fetched, listed, vu, vv, vw, work, report, env>>

(***************************************************************************)
(* cmd_upgrade: SrcPkg.upgrade of the recipe the argument names, which     *)
(* carries version v.                                                      *)
(***************************************************************************)
\* (mutant) a recipe of the installed version counts as newer
NotNewerStrict(new, old) == VerLess(new, old)

\* self._verkey(meta.version) <= self._verkey(inst.version)
NotNewer(new, old) == VerLe(new, old)

upgrade(n, v) ==
    /\ pc = "idle"
    /\ n \in DOMAIN repo
    /\ StartCmd("upgrade", n, v, FALSE)
    /\ LET meta == [repo[n] EXCEPT !.version = v]
       IN  IF ~IsInstalled(n) THEN End("NotInstalled") /\ UNCHANGED work
           ELSE IF NotNewer(meta.version, db[n].version) THEN End("NothingToDo") /\ UNCHANGED work
           ELSE /\ pc' = "install"
                /\ bld' = Enter(meta)
                /\ work' \in StaleTrees
                /\ UNCHANGED <<stack, visited, out>>
    /\ UNCHANGED <<repo, upstream, db, root, cache, listed, vu, vv, vw, report, env>>

(***************************************************************************)
(* cmd_remove: SrcPkg.remove.                                              *)
(***************************************************************************)
\* remove does not ask for root; e is the effective uid it is run with.
\* InstalledPkg.load(name): without a record, a warning and return
remove(n, e) ==
    /\ pc = "idle"
    /\ writes' = <<>>
    /\ fetched' = <<>>
    /\ IF ~IsInstalled(n)
       THEN /\ cmd' = NewCmd("remove", n, <<>>, FALSE)
            /\ End("NotInstalled")
       ELSE /\ cmd' = [NewCmd("remove", n, <<>>, FALSE) EXCEPT !.euid = {e}]
            /\ pc' = "rm_paths"
            /\ UNCHANGED <<out, stack, visited, bld>>
    /\ UNCHANGED <<repo, upstream, db, root, cache, listed, vu, vv, vw, work, report, env>>

\* the directories above a path, "/" aside: p.parent and up
Parents(f) == {SubSeq(f, 1, k) : k \in 1..(Len(f) - 1)}

\* any(d.iterdir()): a directory of the root is there for the files under it
NotEmpty(d, r) == \E g \in r : Len(g) > Len(d) /\ SubSeq(g, 1, Len(d)) = d

\* while d != Path('/'): an empty d is removed and its parent comes next, a
\* d that is not empty ends the walk.  The directories removed.
RECURSIVE rmdir_walk(_, _)
rmdir_walk(d, r) ==
    IF d = <<>> THEN {}
    ELSE IF ~NotEmpty(d, r) THEN {d} \cup rmdir_walk(SubSeq(d, 1, Len(d) - 1), r)
    ELSE {}

\* the directories the removal of the paths fs removes, r being the files
\* that stay
RemovedDirs(fs, r) == UNION {rmdir_walk(SubSeq(f, 1, Len(f) - 1), r) : f \in fs}

\* (mutant) the directories of the paths are removed with what is in them
remove_pathsTree ==
    /\ pc = "rm_paths"
    /\ root' = IF cmd.euid = {0}
               THEN {g \in root : \A f \in db[cmd.name].files : \A d \in Parents(f) : ~NotEmpty(d, {g})}
               ELSE root
    /\ pc' = "rm_hooks"
    /\ UNCHANGED <<repo, upstream, db, cache, cmd, stack, visited, bld, writes, fetched, out, listed, vu, vv, vw, work, report, env>>

\* (mutant) the paths are left on the root
remove_pathsNone ==
    /\ pc = "rm_paths"
    /\ pc' = "rm_hooks"
    /\ UNCHANGED <<repo, upstream, db, root, cache, cmd, stack, visited, bld, writes, fetched, out, listed, vu, vv, vw, work, report, env>>

\* the loop over sorted(pkg.files, key=len, reverse=True): run as root, every
\* path of the record is unlinked; run as a user, the unlink of a path that
\* root installed raises, which is logged and passed over
remove_paths ==
    /\ pc = "rm_paths"
    /\ root' = IF cmd.euid = {0} THEN root \ db[cmd.name].files ELSE root
    /\ pc' = "rm_hooks"
    /\ UNCHANGED <<repo, upstream, db, cache, cmd, stack, visited, bld, writes, fetched, out, listed, vu, vv, vw, work, report, env>>

\* self._run_hooks(post_remove): check=False, an exit code is not looked at
post_remove_hooks ==
    /\ pc = "rm_hooks"
    /\ pc' = "rm_ghooks"
    /\ UNCHANGED <<repo, upstream, db, root, cache, cmd, stack, visited, bld, writes, fetched, out, listed, vu, vv, vw, work, report, env>>

\* self._run_global_hooks("post-remove", name): check=False
post_remove_global_hooks ==
    /\ pc = "rm_ghooks"
    /\ pc' = "rm_record"
    /\ UNCHANGED <<repo, upstream, db, root, cache, cmd, stack, visited, bld, writes, fetched, out, listed, vu, vv, vw, work, report, env>>

\* the unlink of the record under contextlib.suppress(Exception): run as a
\* user it succeeds or not as the database directory allows, and the
\* removal is reported done either way
unlink_record ==
    /\ pc = "rm_record"
    /\ db' \in IF cmd.euid = {0} THEN {Unlink(db, cmd.name)} ELSE {Unlink(db, cmd.name), db}
    /\ End("ok")
    /\ UNCHANGED <<repo, upstream, root, cache, cmd, writes, fetched, listed, vu, vv, vw, work, report, env>>

(***************************************************************************)
(* cmd_build, cmd_package: each function is the one line that loads the    *)
(* recipe and names its work tree; the line that removes the tree, makes   *)
(* it anew and calls build_only or package_only stands after it at module  *)
(* level, outside the function, and is not run by the command.  The work   *)
(* tree is left as the command finds it.                                   *)
(***************************************************************************)
cmd_build(n) ==
    /\ pc = "idle"
    /\ n \in DOMAIN repo
    /\ StartCmd("build", n, repo[n].version, FALSE)
    /\ work' \in StaleTrees
    /\ End("ok")
    /\ UNCHANGED <<repo, upstream, db, root, cache, listed, vu, vv, vw, report, env>>

cmd_package(n) ==
    /\ pc = "idle"
    /\ n \in DOMAIN repo
    /\ StartCmd("package", n, repo[n].version, FALSE)
    /\ work' \in StaleTrees
    /\ End("ok")
    /\ UNCHANGED <<repo, upstream, db, root, cache, listed, vu, vv, vw, report, env>>

(***************************************************************************)
(* cmd_revdep: SrcPkg.revdep without --rebuild.                            *)
(***************************************************************************)
\* (mutant) the providers are looked up in the recipes of the repository
_lib_providersOfRepo(d, b) ==
    {p \in DOMAIN repo : \E f \in repo[p].files :
        basename(f) = b /\ startswith_lib(b) /\ contains_so(b)}

\* the packages whose record lists a file of that basename, for the
\* basenames that start with "lib" and contain ".so"
_lib_providers(d, b) ==
    {p \in DOMAIN d : \E f \in d[p].files :
        basename(f) = b /\ startswith_lib(b) /\ contains_so(b)}

\* the files of a record ldd is run on: present, and executable or named
\* as a shared object
Scanned(d, r, p) == {f \in d[p].files : f \in r /\ (Executable(f) \/ contains_so(basename(f)))}

\* miss, for one package
Missing(d, r, p) == UNION {ldd_not_found(f, r) : f \in Scanned(d, r, p)}

\* the report: for each package with missing libraries, each library and
\* providers.get(os.path.basename(lib), [])
revdep(d, r) ==
    UNION {{[pkg |-> p, lib |-> l, providers |-> _lib_providers(d, l)] : l \in Missing(d, r, p)} :
              p \in DOMAIN d}

cmd_revdep ==
    /\ pc = "idle"
    /\ StartCmd("revdep", "", <<>>, FALSE)
    /\ report' = revdep(db, root)
    /\ End("ok")
    /\ UNCHANGED <<repo, upstream, db, root, cache, listed, vu, vv, vw, work, env>>

(***************************************************************************)
(* cmd_orphans: the function is the one line that lists the orphans; the   *)
(* loop that removes them stands after it at module level, outside the     *)
(* function, and is not run by the command.                                *)
(***************************************************************************)
cmd_orphans(flag) ==
    /\ pc = "idle"
    /\ StartCmd("orphans", "", <<>>, flag)
    /\ listed' = orphans(db)
    /\ End("ok")
    /\ UNCHANGED <<repo, upstream, db, root, cache, vu, vv, vw, work, report, env>>

\* the process ends; the next command starts from the database, the live
\* root and the sources cache it left
Exit ==
    /\ pc = "done"
    /\ pc' = "idle"
    /\ cmd' = NoCmd
    /\ out' = ""
    /\ writes' = <<>>
    /\ fetched' = <<>>
    /\ listed' = <<>>
    /\ visited' = {}
    /\ bld' = NoBuild
    /\ report' = {}
    /\ work' = NoTree
    /\ UNCHANGED <<repo, upstream, db, root, cache, stack, vu, vv, vw, env>>

(***************************************************************************)
(* Specification of the package manager: dependency graphs.  Removal is    *)
(* run as root.                                                            *)
(***************************************************************************)
\* every recipe of the repository declares the sha256 of its archive
Recipes(n) == {PackageMeta(n, V12, d, "h1") : d \in DepLists}

RECURSIVE SumOver(_, _)
SumOver(f, S) ==
    IF S = {} THEN 0
    ELSE LET x == CHOOSE y \in S : TRUE IN f[x] + SumOver(f, S \ {x})

\* the number of dependency entries of a repository
Edges(r) == SumOver([n \in DOMAIN r |-> Len(r[n].dependencies)], DOMAIN r)

\* the repositories: each name has a recipe of that name or none, and the
\* recipes together list at most MaxEdges dependencies
Repos == {r \in UNION {[S -> UNION {Recipes(n) : n \in S}] : S \in SUBSET Names} :
             /\ \A n \in DOMAIN r : r[n].name = n
             /\ Edges(r) <= MaxEdges}

InitPm ==
    /\ db = <<>>
    /\ root = {}
    /\ cache = <<>>
    /\ pc = "idle"
    /\ cmd = NoCmd
    /\ stack = <<>>
    /\ visited = {}
    /\ bld = NoBuild
    /\ writes = <<>>
    /\ fetched = <<>>
    /\ out = ""
    /\ listed = <<>>
    /\ report = {}

Init ==
    /\ repo \in Repos
    /\ upstream = [n \in Names |-> "h1"]
    /\ InitPm
    /\ vu = <<>> /\ vv = <<>> /\ vw = <<>>
    /\ work = NoTree
    /\ env = NoEnv

Next ==
    \/ \E n \in Names : RecipeNotFound(n)
    \/ \E n \in Names : cmd_install(n)
    \/ \E n \in Names : cmd_build(n)
    \/ \E n \in Names : cmd_package(n)
    \/ DepInstalled
    \/ DepUnresolved
    \/ DepDescend
    \/ DepVisited
    \/ Return
    \/ fresh_work
    \/ download
    \/ download_fails
    \/ stage_ok
    \/ stage_fails
    \/ not_root
    \/ _copy_tree
    \/ save
    \/ _run_hooks
    \/ _run_global_hooks
    \/ \E n \in Names, v \in PkgVersions : upgrade(n, v)
    \/ \E n \in Names : remove(n, 0)
    \/ remove_paths
    \/ post_remove_hooks
    \/ post_remove_global_hooks
    \/ unlink_record
    \/ \E flag \in BOOLEAN : cmd_orphans(flag)
    \/ cmd_revdep
    \/ Exit

Spec == Init /\ [][Next]_vars

(***************************************************************************)
(* The checksum gate in isolation: the repositories whose recipes have no  *)
(* dependencies, each with or without a declared sha256, and any bytes on  *)
(* the server.  The resolver's loop has nothing to iterate over there, and *)
(* its steps are left out of the next-state relation.                      *)
(***************************************************************************)
DeclaredShas == {NoSha, "h1"}

FetchRepos == {[n \in Names |-> PackageMeta(n, V12, <<>>, sha[n])] : sha \in [Names -> DeclaredShas]}

InitFetch ==
    /\ repo \in FetchRepos
    /\ upstream \in [Names -> Hashes]
    /\ InitPm
    /\ vu = <<>> /\ vv = <<>> /\ vw = <<>>
    /\ work = NoTree
    /\ env = NoEnv

NextFetch ==
    \/ \E n \in Names : cmd_install(n)
    \/ Return
    \/ fresh_work
    \/ download
    \/ download_fails
    \/ stage_ok
    \/ stage_fails
    \/ not_root
    \/ _copy_tree
    \/ save
    \/ _run_hooks
    \/ _run_global_hooks
    \/ \E n \in Names, v \in PkgVersions : upgrade(n, v)
    \/ \E n \in Names : remove(n, 0)
    \/ remove_paths
    \/ post_remove_hooks
    \/ post_remove_global_hooks
    \/ unlink_record
    \/ \E flag \in BOOLEAN : cmd_orphans(flag)
    \/ Exit

SpecFetch == InitFetch /\ [][NextFetch]_vars

(***************************************************************************)
(* The install command run to its end: the process is sequential, every    *)
(* call it makes returns or raises, so a command under way takes its next  *)
(* step.                                                                   *)
(***************************************************************************)
\* the steps of an install command under way
Running ==
    \/ DepInstalled
    \/ DepUnresolved
    \/ DepDescend
    \/ DepVisited
    \/ Return
    \/ fresh_work
    \/ download
    \/ download_fails
    \/ stage_ok
    \/ stage_fails
    \/ not_root
    \/ _copy_tree
    \/ save
    \/ _run_hooks
    \/ _run_global_hooks

NextLive ==
    \/ \E n \in Names : cmd_install(n)
    \/ Running
    \/ Exit

SpecLive == Init /\ [][NextLive]_vars /\ WF_vars(Running)

(***************************************************************************)
(* The files of the packages: two recipes without dependencies, each       *)
(* staging the library, the binary or both, so that manifests may overlap; *)
(* removal is run as root or as a user.                                    *)
(***************************************************************************)
FileSets == {{LibFoo}, {UserBin}, {LibFoo, UserBin}}

FilesRepos ==
    {[n \in {"a", "b"} |-> [PackageMeta(n, V12, <<>>, "h1") EXCEPT !.files = fs[n]]] :
        fs \in [{"a", "b"} -> FileSets]}

InitFiles ==
    /\ repo \in FilesRepos
    /\ upstream = [n \in Names |-> "h1"]
    /\ InitPm
    /\ vu = <<>> /\ vv = <<>> /\ vw = <<>>
    /\ work = NoTree
    /\ env = NoEnv

NextFiles ==
    \/ \E n \in Names : RecipeNotFound(n)
    \/ \E n \in Names : cmd_install(n)
    \/ \E n \in Names : cmd_build(n)
    \/ \E n \in Names : cmd_package(n)
    \/ Return
    \/ fresh_work
    \/ download
    \/ download_fails
    \/ stage_ok
    \/ stage_fails
    \/ not_root
    \/ _copy_tree
    \/ save
    \/ _run_hooks
    \/ _run_global_hooks
    \/ \E n \in Names, v \in PkgVersions : upgrade(n, v)
    \/ \E n \in Names, e \in Euids : remove(n, e)
    \/ remove_paths
    \/ post_remove_hooks
    \/ post_remove_global_hooks
    \/ unlink_record
    \/ \E flag \in BOOLEAN : cmd_orphans(flag)
    \/ cmd_revdep
    \/ Exit

SpecFiles == InitFiles /\ [][NextFiles]_vars

(***************************************************************************)
(* The version ordering on its own: two version strings are drawn, and a   *)
(* third is made by appending ".1" to the first.                           *)
(***************************************************************************)
InitVer ==
    /\ repo = <<>>
    /\ upstream = <<>>
    /\ InitPm
    /\ vu \in VerStrings
    /\ vv \in VerStrings
    /\ vw = <<>>
    /\ work = NoTree
    /\ env = NoEnv

\* v + ".1"
append_dot1 ==
    /\ vw = <<>>
    /\ vw' = vu \o Dot1
    /\ UNCHANGED <<pmvars, vu, vv, env>>

NextVer == append_dot1

SpecVer == InitVer /\ [][NextVer]_vars

(***************************************************************************)
(* The build environment on its own.  A value is a sequence of pieces, a   *)
(* piece being literal text or a reference $NAME / ${NAME}; an environment *)
(* maps names to values.  The environment of the process and the env map   *)
(* of the recipe are drawn, and build makes the environment of the         *)
(* scripts from them.                                                      *)
(***************************************************************************)
Lit(s) == [ref |-> FALSE, s |-> s]
Ref(k) == [ref |-> TRUE, s |-> k]

\* str(destdir)
DestdirValue == <<Lit("/work/destdir")>>

\* os.environ: HOME is set; PREFIX and DESTDIR may be
Environs ==
    {[k \in {"HOME"} \cup S |-> <<Lit(IF k = "HOME" THEN "/root" ELSE "/proc")>>] :
        S \in SUBSET {"PREFIX", "DESTDIR"}}

\* the values a recipe gives: one or two pieces
EnvPieces == {Lit("/usr"), Ref("PREFIX"), Ref("DESTDIR"), Ref("HOME")}
EnvValues == {<<p>> : p \in EnvPieces} \cup {<<p, Lit("/lib")>> : p \in EnvPieces}

\* meta.build.env
RecipeEnvs == [{"PREFIX", "LIBDIR"} -> EnvValues] \cup [{"LIBDIR"} -> EnvValues]

\* dict.update
Overlay(a, b) == [k \in DOMAIN a \cup DOMAIN b |-> IF k \in DOMAIN b THEN b[k] ELSE a[k]]

\* os.path.expandvars(v): a reference to a name of e is replaced by the value
\* e has for it, any other reference is left as it is; one pass
RECURSIVE expandvars(_, _)
expandvars(v, e) ==
    IF v = <<>> THEN <<>>
    ELSE (IF Head(v).ref /\ Head(v).s \in DOMAIN e THEN e[Head(v).s] ELSE <<Head(v)>>)
            \o expandvars(Tail(v), e)

\* base = os.environ.copy(); base.update(env); base.update(extra)
Accumulated(environ, recipe, extra) == Overlay(Overlay(environ, recipe), extra)

\* every value of base is expanded by os.path.expandvars, which looks names
\* up in os.environ
_expand_env(environ, recipe, extra) ==
    [k \in DOMAIN Accumulated(environ, recipe, extra) |->
        expandvars(Accumulated(environ, recipe, extra)[k], environ)]

InitEnv ==
    /\ repo = <<>>
    /\ upstream = <<>>
    /\ InitPm
    /\ vu = <<>> /\ vv = <<>> /\ vw = <<>>
    /\ work = NoTree
    /\ \E e \in Environs, r \in RecipeEnvs : env = [environ |-> e, recipe |-> r, built |-> NoEnv]

\* build: env = self._expand_env(meta.build.env, {"DESTDIR": str(destdir)})
build_env ==
    /\ env.built = NoEnv
    /\ env' = [env EXCEPT !.built = _expand_env(env.environ, env.recipe, [DESTDIR |-> DestdirValue])]
    /\ UNCHANGED <<pmvars, vu, vv, vw>>

NextEnv == build_env

SpecEnv == InitEnv /\ [][NextEnv]_vars

(***************************************************************************)
(* Notions the properties are stated with.                                 *)
(***************************************************************************)
\* the names a recipe lists, and those reached through the recipes of the
\* names listed (Cardinality(Names) rounds reach them all)
DirectDeps(n) == IF n \in DOMAIN repo THEN Range(repo[n].dependencies) ELSE {}

RECURSIVE Reach(_, _)
Reach(S, k) ==
    IF k = 0 THEN S ELSE Reach(S \cup UNION {DirectDeps(m) : m \in S}, k - 1)

TransDeps(n) == Reach(DirectDeps(n), Cardinality(Names))

Acyclic == \A n \in DOMAIN repo : n \notin TransDeps(n)

AllAvailable == \A n \in DOMAIN repo : DirectDeps(n) \subseteq DOMAIN repo

\* the names written before the i-th write of the command
WrittenBefore(i) == {writes[j] : j \in 1..(i - 1)}

NoDuplicates(s) == \A i, j \in DOMAIN s : i # j => s[i] # s[j]

\* neither the target of the command nor any of its transitive dependencies
\* was installed as the command started
NoneInstalledAtStart == cmd.had \cap ({cmd.name} \cup TransDeps(cmd.name)) = {}

ChainRepo ==
    /\ DOMAIN repo = {"a", "b", "c"}
    /\ repo["a"].dependencies = <<"b">>
    /\ repo["b"].dependencies = <<"c">>
    /\ repo["c"].dependencies = <<>>

(***************************************************************************)
(* C1.  In an install command on an acyclic repository whose recipes are   *)
(* all available, started with none of the target's packages installed,    *)
(* the record of a package is written only after the records of all its    *)
(* transitive dependencies, and a command that succeeds wrote the target's *)
(* record last; on the chain a -> b -> c, install a writes c, b, a.        *)
(***************************************************************************)
C1_DepsWrittenFirst ==
    (cmd.op = "install" /\ Acyclic /\ AllAvailable /\ NoneInstalledAtStart) =>
        /\ \A i \in DOMAIN writes : TransDeps(writes[i]) \subseteq WrittenBefore(i)
        /\ (pc = "done" /\ out = "ok") =>
              /\ writes # <<>>
              /\ writes[Len(writes)] = cmd.name
              /\ TransDeps(cmd.name) \subseteq Range(writes)
        /\ (pc = "done" /\ out = "ok" /\ ChainRepo /\ cmd.name = "a") =>
              writes = <<"c", "b", "a">>

C1_Witness ==
    /\ cmd.op = "install" /\ cmd.name = "a" /\ cmd.had = {}
    /\ ChainRepo
    /\ pc = "done" /\ out = "ok"
    /\ writes = <<"c", "b", "a">>

(***************************************************************************)
(* C2.  Reaching a visited recipe only cuts the traversal short and causes *)
(* no installation: in one install command, on a repository whose recipes  *)
(* are all available, no record is written twice, and no record is written *)
(* while a declared dependency of that package has no record.              *)
(* The code does not keep this: on a cycle the caller of the recursive     *)
(* call installs the visited recipe all the same.                          *)
(***************************************************************************)
C2_CycleCausesNoInstall ==
    (cmd.op = "install" /\ AllAvailable /\ NoneInstalledAtStart) =>
        /\ NoDuplicates(writes)
        /\ \A i \in DOMAIN writes :
              DirectDeps(writes[i]) \ {writes[i]} \subseteq cmd.had \cup WrittenBefore(i)

(***************************************************************************)
(* C3.  orphans() returns exactly the installed packages that no other     *)
(* installed package lists in its depends, sorted by name: the orphans     *)
(* command lists those names, whatever database it runs on.                *)
(* The code does not keep this: it leaves out a package that lists itself. *)
(***************************************************************************)
ListedByNoOther(d) ==
    {p \in DOMAIN d : \A q \in DOMAIN d \ {p} : p \notin Range(d[q].depends)}

C3_OrphansListedByNoOther ==
    (cmd.op = "orphans" /\ pc = "done") =>
        /\ Range(listed) = ListedByNoOther(db)
        /\ IsSorted(listed)

(***************************************************************************)
(* C4.  On the chain a -> b -> c, install a on an empty database and then  *)
(* remove a leave the records of b and c; orphans() on that database       *)
(* returns exactly b (c is still listed by b).                             *)
(***************************************************************************)
AfterRemoveOfA ==
    /\ ChainRepo
    /\ DOMAIN db = {"b", "c"}
    /\ cmd.op = "orphans" /\ pc = "done"

\* remove a has just ended on the database install a left
RemovedA ==
    /\ ChainRepo
    /\ cmd.op = "remove" /\ cmd.name = "a" /\ cmd.had = {"a", "b", "c"}
    /\ pc = "done" /\ out = "ok"

C4_OrphansAfterRemoveIsB ==
    /\ RemovedA => (DOMAIN db = {"b", "c"} /\ orphans(db) = <<"b">>)
    /\ AfterRemoveOfA => listed = <<"b">>

C4_Witness == AfterRemoveOfA /\ listed = <<"b">> /\ db["b"].depends = <<"c">>

\* the statement as the claim has it: orphans() returns {b, c}
C4_OrphansAfterRemoveIsBC == AfterRemoveOfA => Range(listed) = {"b", "c"}

(***************************************************************************)
(* C5.  The orphans command with --remove removes, in one pass, exactly    *)
(* the packages it listed: when it ends, the installed set is the one it   *)
(* started from less the names listed, and the files of those packages are *)
(* the only ones gone.                                                     *)
(* The code does not keep this: the command removes nothing.               *)
(***************************************************************************)
C5_OrphansRemoveRemovesListed ==
    (cmd.op = "orphans" /\ cmd.flag /\ pc = "done") =>
        DOMAIN db = cmd.had \ Range(listed)

(***************************************************************************)
(* C6.  upgrade changes the database or the live root, or writes a record, *)
(* only when the package is installed and the recipe's version is strictly *)
(* greater than the installed one; otherwise the command ends at once and  *)
(* leaves both unchanged.  When it upgrades, the record of that name is    *)
(* overwritten and carries the recipe's version.  With 1.2 installed,      *)
(* upgrade to 1.2 does nothing and upgrade to 1.10 reinstalls.             *)
(***************************************************************************)
\* the step that starts an upgrade command
UpgradeStarts == pc = "idle" /\ cmd'.op = "upgrade"

\* a later step of an upgrade command
UpgradeGoesOn == cmd.op = "upgrade" /\ cmd'.op = "upgrade"

StrictlyNewer(n, v) == IsInstalled(n) /\ VerLess(db[n].version, v)

C6_UpgradeStep ==
    /\ UpgradeStarts =>
          /\ db' = db /\ root' = root
          /\ IF StrictlyNewer(cmd'.name, cmd'.version)
             THEN pc' = "install" /\ bld'[1].meta.version = cmd'.version
             ELSE pc' = "done" /\ out' \in {"NotInstalled", "NothingToDo"}
          /\ (IsInstalled(cmd'.name) /\ db[cmd'.name].version = V12) =>
                /\ cmd'.version = V12 => (pc' = "done" /\ out' = "NothingToDo")
                /\ cmd'.version = V110 => pc' = "install"
    /\ (UpgradeGoesOn /\ (db' # db \/ root' # root \/ writes' # writes)) =>
          /\ StrictlyNewer(cmd.name, cmd.version)
          /\ DOMAIN db' = DOMAIN db
          /\ \A m \in DOMAIN db \ {cmd.name} : db'[m] = db[m]
    /\ (UpgradeGoesOn /\ writes' # writes) =>
          /\ writes' = <<cmd.name>>
          /\ db'[cmd.name].version = cmd.version

C6_UpgradeOnlyWhenNewer ==
    /\ [][C6_UpgradeStep]_vars
    /\ [](cmd.op = "upgrade" /\ pc = "done" =>
             IF out = "ok"
             THEN writes = <<cmd.name>> /\ db[cmd.name].version = cmd.version
             ELSE writes = <<>>)

C6_Witness ==
    /\ cmd.op = "upgrade" /\ pc = "done" /\ out = "ok"
    /\ cmd.version = V110
    /\ writes = <<cmd.name>>
    /\ db[cmd.name].version = V110

(***************************************************************************)
(* C7.  The version ordering is monotone under appending ".1": for every   *)
(* version string v, empty, ending in a separator or ending in an          *)
(* alphabetic token included, the key of v is strictly less than the key   *)
(* of v + ".1".                                                            *)
(* The code does not keep this for a v that ends in a separator.           *)
(***************************************************************************)
C7_MonotoneUnderDot1 == (vw = vu \o Dot1) => VerLess(vu, vw)

(***************************************************************************)
(* C8.  The version ordering is a total order on the keys of the version   *)
(* strings: for any u, v, w exactly one of u < v, key(u) = key(v), v < u   *)
(* holds, and < is transitive; two versions that compare as neither less   *)
(* nor greater have the same key (they need not be the same string).       *)
(* At the first position where the tokens differ, numeric tokens compare   *)
(* by integer value and sort before alphabetic ones, alphabetic tokens     *)
(* compare as strings, and a version whose tokens are a proper prefix of   *)
(* another's is smaller.                                                   *)
(***************************************************************************)
ExactlyOne(x, y, z) == (x /\ ~y /\ ~z) \/ (~x /\ y /\ ~z) \/ (~x /\ ~y /\ z)

\* two tokens that stand for the same key element
TokEq(p, q) == p = q \/ (isdigit(p) /\ isdigit(q) /\ int(p) = int(q))

\* the tokens of u and v agree before position i
AgreeBefore(tu, tv, i) == \A j \in 1..(i - 1) : TokEq(tu[j], tv[j])

TokenRules(u, v) ==
    LET tu == re_split(u)
        tv == re_split(v)
    IN  /\ \A i \in 1..Min(Len(tu), Len(tv)) :
              AgreeBefore(tu, tv, i) =>
                  /\ (isdigit(tu[i]) /\ isdigit(tv[i]) /\ int(tu[i]) < int(tv[i])) => VerLess(u, v)
                  /\ (isdigit(tu[i]) /\ ~isdigit(tv[i])) => VerLess(u, v)
                  /\ (~isdigit(tu[i]) /\ ~isdigit(tv[i]) /\ StrLess(tu[i], tv[i])) => VerLess(u, v)
        /\ (Len(tu) < Len(tv) /\ AgreeBefore(tu, tv, Len(tu) + 1)) => VerLess(u, v)
        /\ (Len(tu) = Len(tv) /\ AgreeBefore(tu, tv, Len(tu) + 1)) => _verkey(u) = _verkey(v)

\* the keys of the version strings drawn
VerKeys == {_verkey(w) : w \in VerStrings}

\* k < l < m implies k < m, and k <= l <= m implies k <= m, for every key m
Transitive(k, l) ==
    (TupleLess(k, l) \/ k = l) =>
        \A m \in VerKeys :
            (TupleLess(l, m) \/ l = m) =>
                /\ TupleLess(k, m) \/ k = m
                /\ (TupleLess(k, l) \/ TupleLess(l, m)) => TupleLess(k, m)

C8_TotalOrderOnKeys ==
    /\ ExactlyOne(VerLess(vu, vv), _verkey(vu) = _verkey(vv), VerLess(vv, vu))
    /\ Transitive(_verkey(vu), _verkey(vv))
    /\ ~VerLess(vu, vu)
    /\ TokenRules(vu, vv)
    /\ VerLess(V12, V110)

C8_Witness ==
    /\ vu = <<"0", "1">> /\ vv = <<"1">> /\ vw = vu \o Dot1
    /\ _verkey(vu) = _verkey(vv)
    /\ ~VerLess(vu, vv) /\ ~VerLess(vv, vu)
    /\ VerLess(vv, vw)

\* antisymmetry as the claim has it: on the version strings
C8_AntisymmetricOnStrings == (~VerLess(vu, vv) /\ ~VerLess(vv, vu)) => vu = vv

(***************************************************************************)
(* C9.  Checksum gate: a build of a recipe with a declared sha256 gets     *)
(* past download only when the file in the cache has that hash.  When the  *)
(* hashes differ the command ends at the download, with the database, the  *)
(* live root and the records written as they were; nothing is copied and   *)
(* no record is written for a package but in a build that passed the gate. *)
(***************************************************************************)
Declared == Meta.sha256 # NoSha

PassedGate == Declared => (Meta.name \in DOMAIN cache /\ cache[Meta.name] = Meta.sha256)

C9_GateStep ==
    /\ (At("download") /\ Declared) =>
          \/ /\ pc' = "install" /\ bld'[1].stage = "extract"
             /\ cache'[Meta.name] = Meta.sha256
          \/ /\ pc' = "done" /\ out' \in {"ChecksumMismatch", "DownloadFailed"}
             /\ db' = db /\ root' = root /\ writes' = writes
    /\ (At("download") /\ Declared /\ Meta.name \in DOMAIN cache' /\ cache'[Meta.name] # Meta.sha256) =>
          pc' = "done"
    /\ (Building /\ (db' # db \/ root' # root \/ writes' # writes)) =>
          (bld[1].stage \in {"copy", "save"} /\ PassedGate)

C9_ChecksumGate ==
    /\ [][C9_GateStep]_vars
    /\ []((Building /\ bld[1].stage \notin {"fresh", "download"}) => PassedGate)
    /\ []((pc = "done" /\ out = "ChecksumMismatch") =>
             /\ bld[1].stage = "download"
             /\ bld[1].meta.name \notin Range(writes))

C9_Witness ==
    /\ pc = "done" /\ out = "ChecksumMismatch"
    /\ cmd.op = "install" /\ cmd.had = {}
    /\ bld[1].meta.sha256 = "h1" /\ cache[cmd.name] = "h2"
    /\ fetched = <<cmd.name>>
    /\ writes = <<>> /\ db = <<>> /\ root = {}

(***************************************************************************)
(* C10.  On a checksum mismatch the file stays in the sources cache: no    *)
(* step deletes or changes a file of the cache.  A download that finds the *)
(* file in the cache does not run the downloader and verifies the bytes    *)
(* that are there, so a build of a recipe whose cached file differs from   *)
(* the declared sha256 ends with the checksum error again.                 *)
(***************************************************************************)
C10_CacheStep ==
    /\ \A f \in DOMAIN cache : f \in DOMAIN cache' /\ cache'[f] = cache[f]
    /\ (At("download") /\ Meta.name \in DOMAIN cache) =>
          /\ fetched' = fetched
          /\ cache' = cache
          /\ IF Declared /\ cache[Meta.name] # Meta.sha256
             THEN pc' = "done" /\ out' = "ChecksumMismatch"
             ELSE pc' = "install" /\ bld'[1].stage = "extract"

C10_MismatchStays ==
    /\ [][C10_CacheStep]_vars
    /\ []((pc = "done" /\ out = "ChecksumMismatch") =>
             /\ bld[1].meta.name \in DOMAIN cache
             /\ cache[bld[1].meta.name] # bld[1].meta.sha256)

\* a build that failed on a file an earlier command had left in the cache
C10_Witness ==
    /\ pc = "done" /\ out = "ChecksumMismatch"
    /\ fetched = <<>>
    /\ bld[1].meta.sha256 = "h1" /\ cache[bld[1].meta.name] = "h2"

(***************************************************************************)
(* C11.  Manifest closure: right after a successful installation (first    *)
(* install, reinstall or upgrade) every path of the record just written    *)
(* is on the live root, and the manifest is exactly the set of files of    *)
(* the staging root.                                                       *)
(***************************************************************************)
\* the record of name n lists exactly the staged files, all on the root
ManifestClosed(n) ==
    /\ n \in DOMAIN db
    /\ db[n].files = Destdir
    /\ db[n].files \subseteq root

\* an installing command has come to its end with its record written
InstallEnded ==
    /\ pc = "done"
    /\ out = "ok"
    /\ cmd.op \in {"install", "upgrade"}
    /\ writes # <<>>

C11_ManifestClosure ==
    /\ (At("hooks") \/ At("ghooks")) => ManifestClosed(Meta.name)
    /\ InstallEnded => ManifestClosed(cmd.name)

\* a reinstall of a package that stages two files has ended
C11_Witness ==
    /\ InstallEnded
    /\ cmd.name \in cmd.had
    /\ db[cmd.name].files = {LibFoo, UserBin}

(***************************************************************************)
(* C12.  Removal reverses install: for packages with pairwise disjoint     *)
(* manifests, after remove(p) of an installed package p none of the paths  *)
(* of p's record is on the live root and p's record is no longer in the    *)
(* database.                                                               *)
(***************************************************************************)
\* no path is listed by two records of the database d
DisjointManifests(d) ==
    \A p, q \in DOMAIN d : p # q => d[p].files \cap d[q].files = {}

\* remove has ended on a package that was installed, the manifests being
\* pairwise disjoint when it started
RemoveEnded ==
    /\ pc = "done"
    /\ cmd.op = "remove"
    /\ out = "ok"
    /\ DisjointManifests(cmd.db0)

\* the paths of the record removed are gone, and so is the record
Reversed ==
    /\ cmd.name \notin DOMAIN db
    /\ cmd.db0[cmd.name].files \cap root = {}

C13_ExclusiveOwnership == DisjointManifests(db)

(***************************************************************************)
(* C14.  Install ordering: in every installation the staging tree is       *)
(* copied onto the live root first, then the record is written, then the   *)
(* post_install hooks of the recipe run, then the global post-install.d    *)
(* hooks; no hook of a package runs before its record is in the database.  *)
(***************************************************************************)
StageNow == IF Building THEN bld[1].stage ELSE "none"
StageNext == IF pc' = "install" /\ bld' # NoBuild THEN bld'[1].stage ELSE "none"

\* a step of a running build: the copy goes from "copy" to "save" and leaves
\* the database alone, the record is written from "save" to "hooks", the
\* recipe's hooks lead to the global ones and these end the installation
C14_OrderStep ==
    /\ (Building /\ root' # root) => (StageNow = "copy" /\ StageNext = "save" /\ db' = db)
    /\ (Building /\ (db' # db \/ writes' # writes)) =>
          /\ StageNow = "save" /\ StageNext = "hooks"
          /\ root' = root
          /\ writes' = Append(writes, Meta.name)
          /\ Meta.name \in DOMAIN db'
    /\ (StageNext = "save" /\ StageNow # "save") => (StageNow = "copy" /\ root' = root \cup Destdir)
    /\ (StageNext = "hooks" /\ StageNow # "hooks") => (StageNow = "save" /\ writes' # writes)
    /\ (StageNext = "ghooks" /\ StageNow # "ghooks") => StageNow = "hooks"
    /\ (StageNow \in {"copy", "save", "hooks"} /\ StageNext # StageNow /\ out' # "NotPrivileged") =>
          StageNext = (CASE StageNow = "copy" -> "save" [] StageNow = "save" -> "hooks" [] StageNow = "hooks" -> "ghooks")

\* while the hooks of a package run, its files are on the root and its
\* record, the last one written, is in the database
HooksAfterRecord ==
    (At("hooks") \/ At("ghooks")) =>
        /\ Destdir \subseteq root
        /\ Meta.name \in DOMAIN db
        /\ db[Meta.name].version = Meta.version
        /\ writes # <<>>
        /\ writes[Len(writes)] = Meta.name

C14_InstallOrdering == [][C14_OrderStep]_vars /\ []HooksAfterRecord

\* the global hooks of a dependency run, inside the resolver, for a package
\* that had no record when the command started
C14_Witness ==
    /\ At("ghooks")
    /\ stack # <<>>
    /\ Meta.name \notin cmd.had
    /\ Meta.name \in DOMAIN db

(***************************************************************************)
(* C15.  If the effective uid is not 0 the installer aborts with the       *)
(* not-privileged error before any effect: no file is copied, no record    *)
(* is written or replaced, no post-install hook runs, and the database     *)
(* and the live root are the same as before the install attempt.           *)
(***************************************************************************)
\* the installer, entered by a process whose uid is not 0, ends the command
\* at once and changes neither the root nor the database
C15_AbortStep ==
    (At("copy") /\ 0 \notin cmd'.euid) =>
        /\ pc' = "done" /\ out' = "NotPrivileged"
        /\ StageNext = "none"
        /\ db' = db /\ root' = root /\ writes' = writes

\* a command that ended so has left things as it found them
NotPrivilegedNoEffect ==
    (pc = "done" /\ out = "NotPrivileged") =>
        /\ db = cmd.db0
        /\ root = cmd.root0
        /\ writes = <<>>
        /\ cmd.euid # {0}

C15_NotRootNoEffect == [][C15_AbortStep]_vars /\ []NotPrivilegedNoEffect

\* a user has tried to reinstall a package of two whose files are on the root
C15_Witness ==
    /\ pc = "done"
    /\ out = "NotPrivileged"
    /\ cmd.name \in DOMAIN db
    /\ db[cmd.name].files \subseteq root
    /\ cmd.euid = {1000}

(***************************************************************************)
(* C16.  The values of the build environment are expanded against the      *)
(* accumulated environment: a value of the recipe's env map that refers to *)
(* a variable defined only in that map, or to $DESTDIR, has the reference  *)
(* replaced by the variable's value in the accumulated environment.        *)
(***************************************************************************)
\* the process environment overlaid by the recipe's map and by DESTDIR
AccumulatedEnv == Accumulated(env.environ, env.recipe, [DESTDIR |-> DestdirValue])

\* the names a value refers to
RefsOf(v) == {v[i].s : i \in {j \in DOMAIN v : v[j].ref}}

\* x is defined by the recipe alone, or is the injected DESTDIR
RecipeOnlyOrDestdir(x) == x \in (DOMAIN env.recipe \ DOMAIN env.environ) \cup {"DESTDIR"}

C16_ExpandedAgainstAccumulated ==
    env.built # NoEnv =>
        \A k \in DOMAIN env.recipe :
            (RefsOf(env.recipe[k]) # {} /\ \A x \in RefsOf(env.recipe[k]) : RecipeOnlyOrDestdir(x)) =>
                env.built[k] = expandvars(env.recipe[k], AccumulatedEnv)

(***************************************************************************)
(* C17.  DESTDIR isolation: between the start of a build and the start of  *)
(* the installer (fetch, extract, patch, script phases, packaging) no file *)
(* outside the staging root of the work tree is written; the live root and *)
(* the database are unchanged by build and package, and by install up to   *)
(* the installer step.                                                     *)
(***************************************************************************)
\* the stages of a build that come before install_package_dir
BeforeInstaller == {"fresh", "download"} \cup Range(ToolStages)

\* the statement as it stands: a step before the installer writes nothing
\* but the staging root
C17_StagingOnlyStep ==
    (Building /\ StageNow \in BeforeInstaller) =>
        (cache' = cache /\ db' = db /\ root' = root)

C17_OnlyStagingRootWritten == [][C17_StagingOnlyStep]_vars

\* a step before the installer leaves the live root and the database alone
C17_RootAndDbStep ==
    (Building /\ StageNow \in BeforeInstaller) => (db' = db /\ root' = root)

\* up to the installer step, and when build or package has ended, the live
\* root and the database are those the command found
RootAndDbAsFound ==
    (\/ Building /\ StageNow \in BeforeInstaller \cup {"copy"}
     \/ pc = "done" /\ cmd.op \in {"build", "package"}) =>
        (db = cmd.db0 /\ root = cmd.root0)

C17_RootAndDbUntouched == [][C17_RootAndDbStep]_vars /\ []RootAndDbAsFound

\* a reinstall has fetched, built and staged, and stands before the installer
C17_Witness ==
    /\ At("copy")
    /\ Meta.name \in DOMAIN cache
    /\ Destdir = {LibFoo, UserBin}
    /\ Meta.name \in DOMAIN db
    /\ db = cmd.db0 /\ root = cmd.root0

(***************************************************************************)
(* C18.  Revdep provider hint (S5): after installing libfoo (manifest      *)
(* /usr/lib/libfoo.so.1), installing user, whose binary needs              *)
(* libfoo.so.1, and removing libfoo, revdep reports user with the missing  *)
(* soname libfoo.so.1 and the provider hint libfoo.  In general the hint   *)
(* for a missing soname is the set of packages found for its basename in   *)
(* the provider map built from the files of the installed records whose    *)
(* basename starts with "lib" and contains ".so".                          *)
(* Here a is libfoo and b is user.                                         *)
(***************************************************************************)
\* revdep has ended in the situation of S5: user is installed with its
\* binary on the root, libfoo has no record and its library is gone
S5Reported ==
    /\ pc = "done" /\ cmd.op = "revdep"
    /\ repo["a"].files = {LibFoo} /\ repo["b"].files = {UserBin}
    /\ DOMAIN db = {"b"}
    /\ db["b"].files = {UserBin}
    /\ root = {UserBin}
    /\ "a" \in DOMAIN cache

\* the statement as it stands: the hint is libfoo
C18_HintIsLibfoo ==
    S5Reported => report = {[pkg |-> "b", lib |-> "libfoo.so.1", providers |-> {"a"}]}

\* the packages that have a record listing a library file of basename b
InstalledProviders(b) ==
    {p \in DOMAIN db : \E f \in db[p].files :
        basename(f) = b /\ startswith_lib(b) /\ contains_so(b)}

\* in S5 user is reported with libfoo.so.1 missing and no provider, libfoo
\* having no record; in general every line of the report names an installed
\* package, a soname no file of the root has, and the installed providers
C18_HintFromInstalledRecords ==
    /\ S5Reported => report = {[pkg |-> "b", lib |-> "libfoo.so.1", providers |-> {}]}
    /\ (pc = "done" /\ cmd.op = "revdep") =>
          \A r \in report :
              /\ r.pkg \in DOMAIN db
              /\ ~\E g \in root : basename(g) = r.lib
              /\ r.providers = InstalledProviders(r.lib)

C18_Witness == S5Reported /\ report # {}

(***************************************************************************)
(* C19.  Every build started by build, package or install begins with a    *)
(* fresh work tree: a stale work tree of the same <name>-<version> is      *)
(* removed at build start, so that no file staged under destdir/ by an     *)
(* earlier run is in the archive or the manifest of the current run.       *)
(***************************************************************************)
\* past the start of a build, and when build, package or install has ended
\* well, nothing of an earlier run is under destdir
C19_FreshWorkTree ==
    /\ (Building /\ StageNow # "fresh") => StaleFile \notin Destdir
    /\ (pc = "done" /\ out = "ok" /\ cmd.op \in {"build", "package", "install"}) =>
          StaleFile \notin Destdir

(***************************************************************************)
(* C20.  Install-from-recipe runs its stages in the order fetch (with the  *)
(* checksum check), extract, patches, prepare, compile, install script,    *)
(* packaging, copy onto the live root, database write, hooks; a failure of *)
(* a stage before the database write (download failure, checksum          *)
(* mismatch, unsupported archive, failed patch, non-zero exit of a script  *)
(* phase) prevents every later stage, so that a record is written only     *)
(* after all earlier stages have succeeded and an existing record of that  *)
(* name is left as it was.                                                 *)
(***************************************************************************)
\* the stages of install_from_meta in the order of the statement
StageOrder ==
    <<"fresh", "download", "extract", "patches", "prepare", "compile", "install",
      "package", "copy", "save", "hooks", "ghooks">>

OrderIndex(stage) == CHOOSE i \in DOMAIN StageOrder : StageOrder[i] = stage

\* the ways a stage before the database write fails
StageFailures ==
    {"DownloadFailed", "ChecksumMismatch", "UnsupportedArchive", "PatchFailed", "BuildScriptFailed"}

\* a step that changes the stage enters the first one or goes to the next
\* one of the order; a step that ends the command from a stage before the
\* write reports a failure and writes nothing; a record is written by the
\* stage of the database write alone
C20_StageStep ==
    /\ (StageNext \notin {"none", StageNow}) =>
          \/ StageNow = "none" /\ StageNext = "fresh"
          \/ StageNow # "none" /\ OrderIndex(StageNext) = OrderIndex(StageNow) + 1
    /\ (Building /\ OrderIndex(StageNow) < OrderIndex("save") /\ pc' = "done") =>
          /\ out' \in StageFailures \cup {"NotPrivileged"}
          /\ db' = db /\ root' = root /\ writes' = writes
    /\ (Building /\ writes' # writes) => StageNow = "save"

\* a stage is reached with the earlier ones done: the archive is in the
\* cache and has the declared hash, the files are staged before packaging
EarlierStagesDone ==
    Building =>
        /\ OrderIndex(StageNow) > OrderIndex("download") =>
              (Meta.name \in DOMAIN cache /\ ~Mismatch(Meta, cache[Meta.name]))
        /\ OrderIndex(StageNow) > OrderIndex("install") => Meta.files \subseteq Destdir

\* a command that ended on a failed stage has left the database, the record
\* of that name included, and the live root as they were
FailureLeavesRecord ==
    (pc = "done" /\ out \in StageFailures) =>
        (db = cmd.db0 /\ root = cmd.root0 /\ writes = <<>>)

C20_StagesInOrder == [][C20_StageStep]_vars /\ [](EarlierStagesDone /\ FailureLeavesRecord)

\* the reinstall of a package has failed in a script phase, its record being
\* the one it had
C20_Witness ==
    /\ pc = "done"
    /\ out = "BuildScriptFailed"
    /\ cmd.name \in DOMAIN db
    /\ db = cmd.db0

(***************************************************************************)
(* C21.  Removal of an installed package goes in the order: delete the     *)
(* paths of the manifest, run the post_remove hooks of the recipe, run the *)
(* global post-remove.d hooks, and only then unlink the record; an error   *)
(* on a path or a failing hook never aborts the removal, so that the       *)
(* record is unlinked at the end in every case.  Removal of a name with no *)
(* record changes nothing and runs no hooks.                               *)
(***************************************************************************)
Removing == pc \in {"rm_paths", "rm_hooks", "rm_ghooks", "rm_record"}

\* a step of a removal goes to the next stage of the order; the root changes
\* in the first alone, the database in the last alone
C21_OrderStep ==
    /\ pc = "rm_paths" => (pc' \in {"rm_paths", "rm_hooks"} /\ db' = db)
    /\ pc = "rm_hooks" => (pc' \in {"rm_hooks", "rm_ghooks"} /\ db' = db /\ root' = root)
    /\ pc = "rm_ghooks" => (pc' \in {"rm_ghooks", "rm_record"} /\ db' = db /\ root' = root)
    /\ pc = "rm_record" => (pc' \in {"rm_record", "done"} /\ root' = root)
    /\ (pc = "idle" /\ cmd'.op = "remove" /\ ~IsInstalled(cmd'.name)) =>
          (pc' = "done" /\ out' = "NotInstalled" /\ db' = db /\ root' = root)

\* a removal that went through its stages has unlinked the record
RecordUnlinkedAtEnd ==
    (pc = "done" /\ cmd.op = "remove" /\ out = "ok") => cmd.name \notin DOMAIN db

C21_RemovalOrder == [][C21_OrderStep]_vars /\ []RecordUnlinkedAtEnd

(***************************************************************************)
(* C22.  During dependency resolution a dependency that already has a      *)
(* record is neither reinstalled nor descended into: its record is left    *)
(* unchanged and its own dependencies are not examined, even when some of  *)
(* them are not installed or have no recipe.                               *)
(***************************************************************************)
\* the loop, on a dependency that has a record, goes on to the next name of
\* the same list: no activation is added, no build entered, nothing visited
C22_SkipStep ==
    (InLoop /\ IsInstalled(TopDep)) =>
        /\ stack' \in {stack, Advance(stack)}
        /\ pc' = "resolve"
        /\ visited' = visited /\ bld' = bld
        /\ db' = db /\ root' = root /\ writes' = writes

\* what had a record when install started, the target aside, keeps it as it
\* was and is not written by the command
InstalledDepsUntouched ==
    cmd.op = "install" =>
        \A n \in cmd.had \ {cmd.name} :
            /\ n \in DOMAIN db
            /\ db[n] = cmd.db0[n]
            /\ n \notin Range(writes)

C22_InstalledDepNotDescended == [][C22_SkipStep]_vars /\ []InstalledDepsUntouched

\* an install has ended well having written its target alone: a dependency
\* of the target had a record, and a dependency of that one has none
C22_Witness ==
    /\ pc = "done" /\ out = "ok" /\ cmd.op = "install"
    /\ writes = <<cmd.name>>
    /\ \E d \in DirectDeps(cmd.name) \cap cmd.had :
          /\ d # cmd.name
          /\ \E c \in DirectDeps(d) : c \notin DOMAIN db

(***************************************************************************)
(* C23.  If some dependency in the closure of the target t, not installed  *)
(* yet, has no recipe, install t fails with the unresolved-dependency      *)
(* error and the record of t is never written; there is no rollback: the   *)
(* records of the dependencies installed earlier in the traversal stay.    *)
(***************************************************************************)
\* the dependencies of m that had no record when the command started
PendingDeps(m) == {d \in DirectDeps(m) : d \notin cmd.had}

RECURSIVE PendingReach(_, _)
PendingReach(S, k) ==
    IF k = 0 THEN S ELSE PendingReach(S \cup UNION {PendingDeps(m) : m \in S}, k - 1)

\* the closure of the target through dependencies not installed yet
PendingClosure == PendingReach(PendingDeps(cmd.name), Cardinality(Names))

\* one of them has no recipe
MissingRecipe == \E c \in PendingClosure : c \notin DOMAIN repo

\* the ways an installation run before the missing recipe is come to fails
EarlierFailures == StageFailures \cup {"NotPrivileged"}

\* such an install never writes the record of its target, and ends with the
\* unresolved-dependency error unless an installation before failed; the
\* error leaves the records written before it
C23_UnresolvedStep ==
    (pc = "resolve" /\ pc' = "done") => (out' = "UnresolvedDependency" /\ db' = db /\ root' = root)

TargetNotWritten ==
    (cmd.op = "install" /\ MissingRecipe) =>
        /\ cmd.name \notin Range(writes)
        /\ pc = "done" => out \in {"UnresolvedDependency"} \cup EarlierFailures

C23_UnresolvedDependency == [][C23_UnresolvedStep]_vars /\ []TargetNotWritten

(***************************************************************************)
(* C24.  Dependency resolution followed by installation terminates for     *)
(* every finite recipe graph, graphs with cycles and self-dependencies     *)
(* included: the recursion of _resolve_deps_install_first visits each      *)
(* recipe name at most once per install command.                           *)
(***************************************************************************)
\* the names of the recipes whose loop is under way
StackNames == [i \in DOMAIN stack |-> stack[i].meta.name]

\* an activation is added for a name not visited yet, which is then visited;
\* within a command no name leaves visited
C24_VisitStep ==
    /\ (pc = "resolve" /\ Len(stack') > Len(stack)) =>
          /\ Len(stack') = Len(stack) + 1
          /\ stack'[Len(stack')].meta.name \notin visited
          /\ visited' = visited \cup {stack'[Len(stack')].meta.name}
    /\ (pc \in {"resolve", "install"} /\ pc' # "done") => visited \subseteq visited'

\* no name has two activations, and each name with one is visited
VisitedOnce ==
    pc \in {"resolve", "install"} =>
        /\ NoDuplicates(StackNames)
        /\ Range(StackNames) \subseteq visited
        /\ Len(stack) <= Cardinality(Names)

InstallUnderWay == cmd.op = "install" /\ pc \in {"resolve", "install"}

C24_InstallTerminates ==
    /\ [][C24_VisitStep]_vars
    /\ []VisitedOnce
    /\ InstallUnderWay ~> (pc = "done")

\* an install whose target depends on itself through another recipe has
\* ended well
C24_Witness ==
    /\ pc = "done" /\ out = "ok" /\ cmd.op = "install"
    /\ cmd.name \in TransDeps(cmd.name)
    /\ cmd.name \notin DirectDeps(cmd.name)

(***************************************************************************)
(* C25.  remove(p) unlinks only paths of p's own manifest and removes only *)
(* directories that are empty at that moment; when manifests are disjoint  *)
(* no file of the manifest of another installed record is deleted, and the *)
(* manifest closure of every other installed package is preserved.         *)
(***************************************************************************)
\* the step that deletes: what leaves the root is in the manifest of p, the
\* directories removed hold no file that stays, and with disjoint manifests
\* the files of the other records stay
C25_DeleteStep ==
    pc = "rm_paths" =>
        /\ root \ root' \subseteq db[cmd.name].files
        /\ \A d \in RemovedDirs(db[cmd.name].files, root') : ~NotEmpty(d, root')
        /\ DisjointManifests(db) =>
              \A q \in DOMAIN db \ {cmd.name} : db[q].files \cap root \subseteq root'

\* during and after a removal among disjoint manifests, every other record
\* is as it was, and its files are all on the root if they were
OthersClosed ==
    (cmd.op = "remove" /\ DisjointManifests(cmd.db0)) =>
        \A q \in DOMAIN cmd.db0 \ {cmd.name} :
            /\ q \in DOMAIN db
            /\ db[q] = cmd.db0[q]
            /\ db[q].files \subseteq cmd.root0 => db[q].files \subseteq root

C25_RemoveOwnPathsOnly == [][C25_DeleteStep]_vars /\ []OthersClosed

\* root has removed the package of the binary; the package of the library
\* is installed, with the library on the root
C25_Witness ==
    /\ pc = "done" /\ cmd.op = "remove" /\ out = "ok"
    /\ cmd.euid = {0}
    /\ cmd.db0[cmd.name].files = {UserBin}
    /\ UserBin \in cmd.root0 /\ UserBin \notin root
    /\ \E q \in DOMAIN db : db[q].files = {LibFoo} /\ LibFoo \in root

====
